---- MODULE Spec2Model ----
(***************************************************************************)
(* Model of the keba wallbox client: the UDP exchange (udp.msg), the       *)
(* history scan (udp.History), the two polling loops that share one client *)
(* (metrics, history), the /history handler, the float F behind a counter, *)
(* the decoding of a history slot (udpLog) and the DIPs text encoding.     *)
(***************************************************************************)
EXTENDS Integers, Sequences, FiniteSets, TLC

(***************************************************************************)
(* Program constants                                                       *)
(***************************************************************************)
Port == 7090
First == 100
Last == 130
ReportSystem == 1
ReportConfig == 2
ReportSession == 3

(***************************************************************************)
(* Bounds of the environment                                               *)
(***************************************************************************)
\* largest session sequence number the device reports in a generated table
MaxSession == 2
\* length of the freely chosen head of a generated slot table
MaxPrefix == 2
\* datagrams that can be under way to the local port at the same time
MaxInFlight == 1
\* replies that may outlive the exchange that asked for them, per behaviour
MaxLate == 1
\* most used slots of a short history
MaxShort == 1
\* the largest value handed to F.Set
MaxValue == 1

Procs == {"metrics", "history"}
\* the two loops, and a caller of System, Config and Session outside them
Callers == Procs \cup {"caller"}
\* no datagram written or read yet in a msg call
NoIO == [sent |-> 0, read |-> 0]
Sessions == (-1)..MaxSession
Slots == First..Last
Nil == [nil |-> TRUE, list |-> <<>>]
NoDatagram == [to |-> 0, re |-> 0, session |-> 0]

\* slot numbers of the documented scenario: 5, 5, 6, 0, 7, -1, 8
ExamplePrefix == <<5, 5, 6, 0, 7, -1, 8>>

\* the slot table whose first entries are prefix and whose other entries are fill
Table(prefix, fill) ==
  [s \in Slots |-> IF s - First + 1 <= Len(prefix) THEN prefix[s - First + 1] ELSE fill]

\* what the slots after the head hold: the end mark, nothing, or one session
Fills == {-1, 0, 1}

Prefixes == UNION {[1..n -> Sessions] : n \in 0..MaxPrefix}

\* the slot contents the device may hold
Tables ==
  {Table(p, f) : p \in Prefixes, f \in Fills} \cup {Table(ExamplePrefix, -1)}

\* slot contents with a short history: every slot after the head is unused
ShortTables == {Table(p, -1) : p \in UNION {[1..n -> Sessions] : n \in 0..MaxShort}}

VARIABLES
  mu,        \* udp.mu: "" when unlocked, else the caller holding it
  pc,        \* position of each loop: inside msg or in its caller
  conn,      \* whether the caller's socket is open
  rcv,       \* receive buffer of the caller's socket
  cmd,       \* report number of the command of the caller's current msg call
  merr,      \* error of the caller's current/last msg call
  got,       \* datagram last decoded into the caller's record
  net,       \* reply datagrams under way to local port 7090
  slots,     \* history slot contents of the device
  i,         \* History: loop index
  hist,      \* History: accumulated list
  ret,       \* History: returned list (or nil)
  herr,      \* History: returned error
  decoded,   \* session numbers decoded so far in the running History call
  queried,   \* slot indices for which History called msg in the running call
  served,    \* history()'s hist, the slice served at /history, as its two words
  smu,       \* history()'s mu: whether the writer holds it and how many readers do
  lastgood,  \* the result of the last History call that returned no error
  hpc,       \* where the handler of a /history request stands
  seen,      \* the two words of hist the handler has loaded
  mcall,     \* metrics loop: the client call in progress
  late,      \* number of replies that have outlived their exchange
  io,        \* datagrams written and read by the caller's current msg call
  op,        \* the client call of "caller" in progress
  fval,      \* F.val, a float64 of two words
  fmu,       \* F.mu: whether a writer holds it and how many readers do
  fpc,       \* where each caller of F.Set and F.Get stands
  farg,      \* the argument of each running Set
  fget,      \* the two words each running Get has loaded
  written,   \* the values stored into F.val so far
  lin,       \* the history slot reply handed to udpLog.UnmarshalJSON
  l,         \* the udpLog record
  lerr,      \* the error udpLog.UnmarshalJSON returned
  lpc,       \* "reply" before the decoding, "decoded" after it
  d,         \* DIPs: the value (the receiver of MarshalJSON / UnmarshalJSON)
  data,      \* DIPs: the JSON text
  derr,      \* DIPs: the error UnmarshalJSON returned
  dpc,       \* DIPs: "value" before encoding, "text" before decoding, "decoded"
  dkind,     \* DIPs: where the text comes from
  dsrc,      \* DIPs: the value the text was made from
  dold       \* DIPs: the value of d before decoding

vars == <<mu, pc, conn, rcv, cmd, merr, got, net, slots, i, hist, ret, herr,
          decoded, queried, served, smu, lastgood, hpc, seen, mcall, late, io, op,
          fval, fmu, fpc, farg, fget, written,
          lin, l, lerr, lpc,
          d, data, derr, dpc, dkind, dsrc, dold>>

clientVars == <<mu, pc, conn, rcv, cmd, merr, got, net, slots, i, hist, ret, herr,
                decoded, queried, served, smu, lastgood, hpc, seen, mcall, late,
                io, op>>
dipVars == <<d, data, derr, dpc, dkind, dsrc, dold>>
logVars == <<lin, l, lerr, lpc>>
fVars == <<fval, fmu, fpc, farg, fget, written>>
reqVars == <<hpc, seen>>
\* what the client and the loops never touch
pureVars == <<dipVars, logVars, fVars, reqVars>>

histVars == <<i, hist, ret, herr, decoded, queried, served, smu, lastgood>>

\* laddr := &net.UDPAddr{Port: raddr.Port}: every socket is bound to the same
\* local port
LocalPort(p) == Port

\* the reply the device sends to "report c" received from port `from`; a reply
\* that is not a history slot has no "Session ID"
DeviceReply(c, from) ==
  [to |-> from, re |-> c, session |-> IF c \in Slots THEN slots[c] ELSE 0]

\* a slice as the two words that matter: its elements and its length
Slice(list) == [ptr |-> list, len |-> Len(list)]

InitClient ==
  /\ mu = ""
  /\ pc = [p \in Callers |-> "idle"]
  /\ conn = [p \in Callers |-> FALSE]
  /\ rcv = [p \in Callers |-> <<>>]
  /\ cmd = [p \in Callers |-> 0]
  /\ merr = [p \in Callers |-> "none"]
  /\ got = [p \in Callers |-> NoDatagram]
  /\ net = <<>>
  /\ late = 0
  /\ io = [p \in Callers |-> NoIO]
  /\ op = "none"
  /\ i = First
  /\ hist = <<>>
  /\ ret = Nil
  /\ herr = "none"
  /\ decoded = <<>>
  /\ queried = <<>>
  /\ served = Slice(<<>>)
  /\ smu = [w |-> FALSE, r |-> 0]
  /\ lastgood = <<>>
  /\ hpc = "idle"
  /\ seen = Slice(<<>>)
  /\ mcall = "none"

\* no DIPs value is being encoded or decoded
IdleDIPs ==
  /\ d = 0
  /\ data = <<>>
  /\ derr = "none"
  /\ dpc = "decoded"
  /\ dkind = "none"
  /\ dsrc = 0
  /\ dold = 0

\* var l udpLog
ZeroLog == [Session |-> 0, Start |-> 0, End |-> 0]
\* a member of a reply that is not there
Absent == [kind |-> "absent", text |-> <<>>]

IdleLog ==
  /\ lin = [session |-> 0, started |-> Absent, ended |-> Absent]
  /\ l = ZeroLog
  /\ lerr = "none"
  /\ lpc = "decoded"

\* the callers of F.Set (the metrics loop) and of F.Get (the requests that
\* collect the counters)
Setters == {"set1", "set2"}
Getters == {"get1", "get2"}
\* a float64 as its two words
Float(v) == <<v, v>>

\* var whTotal F
ZeroF ==
  /\ fval = Float(0)
  /\ fmu = [w |-> FALSE, r |-> 0]
  /\ written = {}

IdleF ==
  /\ ZeroF
  /\ fpc = [p \in Setters \cup Getters |-> "idle"]
  /\ farg = [p \in Setters |-> 0]
  /\ fget = [p \in Getters |-> Float(0)]

\* both loops share one client; the device holds a short history
Init ==
  /\ InitClient
  /\ slots \in ShortTables
  /\ IdleDIPs
  /\ IdleLog
  /\ IdleF

\* the history loop alone; the device holds any of the slot tables
InitHistory ==
  /\ InitClient
  /\ slots \in Tables
  /\ IdleDIPs
  /\ IdleLog
  /\ IdleF

(***************************************************************************)
(* udp.msg, one step per statement                                         *)
(***************************************************************************)
\* u.mu.Lock()
LockNoWait(p) ==
  /\ pc[p] = "lock"
  /\ mu' = p
  /\ pc' = [pc EXCEPT ![p] = "dial"]
  /\ UNCHANGED <<conn, rcv, cmd, merr, got, net, late, io>>
Lock(p) ==
  /\ pc[p] = "lock"
  /\ mu = ""
  /\ mu' = p
  /\ pc' = [pc EXCEPT ![p] = "dial"]
  /\ UNCHANGED <<conn, rcv, cmd, merr, got, net, late, io>>

\* net.DialUDP: the socket is bound to local port 7090 and connected, or fails
Dial(p) ==
  /\ pc[p] = "dial"
  /\ \/ /\ conn' = [conn EXCEPT ![p] = TRUE]
        /\ rcv' = [rcv EXCEPT ![p] = <<>>]
        /\ pc' = [pc EXCEPT ![p] = "write"]
        /\ UNCHANGED merr
     \/ /\ merr' = [merr EXCEPT ![p] = "dial"]
        /\ pc' = [pc EXCEPT ![p] = "unlock"]
        /\ UNCHANGED <<conn, rcv>>
  /\ UNCHANGED <<mu, cmd, got, net, late, io>>

\* conn.Write: the command leaves as one datagram, and the device's reply sets
\* out or is lost on the way; or the write fails
WriteLeak(p) ==
  /\ pc[p] = "write"
  /\ \/ /\ \/ /\ Len(net) < MaxInFlight
              /\ net' = Append(net, DeviceReply(cmd[p], LocalPort(p)))
           \/ UNCHANGED net
        /\ io' = [io EXCEPT ![p].sent = @ + 1]
        /\ pc' = [pc EXCEPT ![p] = "read"]
        /\ UNCHANGED merr
     \/ /\ merr' = [merr EXCEPT ![p] = "write"]
        /\ pc' = [pc EXCEPT ![p] = "unlock"]
        /\ UNCHANGED <<net, io>>
  /\ UNCHANGED <<mu, conn, rcv, cmd, got, late>>
Write(p) ==
  /\ pc[p] = "write"
  /\ \/ /\ \/ /\ Len(net) < MaxInFlight
              /\ net' = Append(net, DeviceReply(cmd[p], LocalPort(p)))
           \/ UNCHANGED net
        /\ io' = [io EXCEPT ![p].sent = @ + 1]
        /\ pc' = [pc EXCEPT ![p] = "read"]
        /\ UNCHANGED merr
     \/ /\ merr' = [merr EXCEPT ![p] = "write"]
        /\ pc' = [pc EXCEPT ![p] = "close"]
        /\ UNCHANGED <<net, io>>
  /\ UNCHANGED <<mu, conn, rcv, cmd, got, late>>

\* a msg that sends its command again when the deadline passes
ReadRetry(p) ==
  /\ pc[p] = "read"
  /\ \/ /\ rcv[p] # <<>>
        /\ got' = [got EXCEPT ![p] = Head(rcv[p])]
        /\ merr' = [merr EXCEPT ![p] = "none"]
        /\ rcv' = [rcv EXCEPT ![p] = Tail(rcv[p])]
        /\ io' = [io EXCEPT ![p].read = @ + 1]
        /\ pc' = [pc EXCEPT ![p] = "close"]
     \/ /\ rcv[p] = <<>>
        /\ pc' = [pc EXCEPT ![p] = "write"]
        /\ UNCHANGED <<got, rcv, io, merr>>
  /\ UNCHANGED <<mu, conn, cmd, net, late>>

\* a msg without read deadline: it waits until a datagram is there
ReadNoDeadline(p) ==
  /\ pc[p] = "read"
  /\ rcv[p] # <<>>
  /\ \/ /\ got' = [got EXCEPT ![p] = Head(rcv[p])]
        /\ merr' = [merr EXCEPT ![p] = "none"]
     \/ /\ merr' = [merr EXCEPT ![p] = "decode"]
        /\ UNCHANGED got
  /\ rcv' = [rcv EXCEPT ![p] = Tail(rcv[p])]
  /\ io' = [io EXCEPT ![p].read = @ + 1]
  /\ pc' = [pc EXCEPT ![p] = "close"]
  /\ UNCHANGED <<mu, conn, cmd, net, late>>

\* json.NewDecoder(conn).Decode under the 2s read deadline: the first datagram
\* in the socket buffer is read and decoded, or the deadline passes.  A
\* datagram that is no JSON value is an error that leaves the record alone; a
\* JSON value with a member of the wrong type is an error as well, but the
\* decoder has set the other members of the record (here: all but Session)
Read(p) ==
  /\ pc[p] = "read"
  /\ \/ /\ rcv[p] # <<>>
        /\ \/ /\ got' = [got EXCEPT ![p] = Head(rcv[p])]
              /\ merr' = [merr EXCEPT ![p] = "none"]
           \/ /\ merr' = [merr EXCEPT ![p] = "decode"]
              /\ UNCHANGED got
           \/ /\ got' = [got EXCEPT ![p] = [Head(rcv[p]) EXCEPT !.session = 0]]
              /\ merr' = [merr EXCEPT ![p] = "decode"]
        /\ rcv' = [rcv EXCEPT ![p] = Tail(rcv[p])]
        /\ io' = [io EXCEPT ![p].read = @ + 1]
     \/ /\ rcv[p] = <<>>
        /\ merr' = [merr EXCEPT ![p] = "timeout"]
        /\ UNCHANGED <<got, rcv, io>>
  /\ pc' = [pc EXCEPT ![p] = "close"]
  /\ UNCHANGED <<mu, conn, cmd, net, late>>

\* defer conn.Close(): the buffered datagrams go with the socket; a reply
\* still under way arrives at the closed port and is dropped, or is slow
\* enough to arrive after the port has been bound again
Close(p) ==
  /\ pc[p] = "close"
  /\ conn' = [conn EXCEPT ![p] = FALSE]
  /\ rcv' = [rcv EXCEPT ![p] = <<>>]
  /\ \/ /\ net' = <<>>
        /\ UNCHANGED late
     \/ /\ net # <<>>
        /\ late < MaxLate
        /\ late' = late + 1
        /\ UNCHANGED net
  /\ pc' = [pc EXCEPT ![p] = "unlock"]
  /\ UNCHANGED <<mu, cmd, merr, got, io>>

\* a msg that returns with the lock still held
UnlockKept(p) ==
  /\ pc[p] = "unlock"
  /\ pc' = [pc EXCEPT ![p] = "done"]
  /\ UNCHANGED <<mu, conn, rcv, cmd, merr, got, net, late, io>>

\* defer u.mu.Unlock()
Unlock(p) ==
  /\ pc[p] = "unlock"
  /\ mu' = ""
  /\ pc' = [pc EXCEPT ![p] = "done"]
  /\ UNCHANGED <<conn, rcv, cmd, merr, got, net, late, io>>

(***************************************************************************)
(* The network between the device and local port 7090                      *)
(***************************************************************************)
\* a datagram arrives while a socket is bound to the port: it is queued there
Deliver ==
  /\ net # <<>>
  /\ \E p \in Callers :
       /\ conn[p]
       /\ LocalPort(p) = Head(net).to
       /\ rcv' = [rcv EXCEPT ![p] = Append(rcv[p], Head(net))]
  /\ net' = Tail(net)
  /\ UNCHANGED <<mu, pc, conn, cmd, merr, got, late, io>>
  /\ UNCHANGED <<slots, mcall, op>>
  /\ UNCHANGED histVars
  /\ UNCHANGED pureVars

Msg(p) ==
  /\ \/ Lock(p)
     \/ Dial(p)
     \/ Write(p)
     \/ Read(p)
     \/ Close(p)
     \/ Unlock(p)
  /\ UNCHANGED <<slots, mcall, op>>
  /\ UNCHANGED histVars
  /\ UNCHANGED pureVars

(***************************************************************************)
(* udp.History and the history loop                                        *)
(***************************************************************************)
\* hist := make([]Log, 0, 30); i := 100; u.msg("report 100", &l) is entered
HistoryStart ==
  /\ pc["history"] = "idle"
  /\ hist' = <<>>
  /\ i' = First
  /\ decoded' = <<>>
  /\ queried' = <<First>>
  /\ cmd' = [cmd EXCEPT !["history"] = First]
  /\ pc' = [pc EXCEPT !["history"] = "lock"]
  /\ UNCHANGED <<mu, conn, rcv, merr, got, net, late, io, op, slots, ret, herr, served, smu, lastgood, mcall>>
  /\ UNCHANGED pureVars

\* for i := 100; i <= 130; i++ : the loop condition
MoreLate(j) == j < Last
MoreBeyond(j) == j <= Last + 1
More(j) == j <= Last

\* if l.Session < 0 { break }
BreaksNever(s) == FALSE
BreaksOnZero(s) == s <= 0
Breaks(s) == s < 0

\* the rest of the loop body, for session number s: an empty slot and a repeat
\* of the last accepted entry are skipped, anything else is appended
AcceptAll(h, s) ==
  IF s = 0 THEN h ELSE Append(h, s)
AcceptUnseen(h, s) ==
  IF s = 0 THEN h
  ELSE IF \E k \in 1..Len(h) : h[k] = s THEN h
  ELSE Append(h, s)
Accept(h, s) ==
  IF s = 0 THEN h
  ELSE IF Len(h) > 0 /\ s = h[Len(h)] THEN h
  ELSE Append(h, s)

\* return nil, err
ErrReturnPartial(h) == [nil |-> FALSE, list |-> h]
ErrReturn(h) == Nil

\* one pass of the loop body after msg returned, up to the next msg call or
\* the return
HistoryStep ==
  /\ pc["history"] = "done"
  /\ IF merr["history"] # "none"
     THEN /\ ret' = ErrReturn(hist)
          /\ herr' = merr["history"]
          /\ pc' = [pc EXCEPT !["history"] = "ret"]
          /\ UNCHANGED <<i, hist, decoded, queried, cmd, got, io>>
     ELSE LET s == got["history"].session IN
          /\ decoded' = Append(decoded, s)
          /\ IF Breaks(s)
             THEN /\ ret' = [nil |-> FALSE, list |-> hist]
                  /\ herr' = "none"
                  /\ pc' = [pc EXCEPT !["history"] = "ret"]
                  /\ UNCHANGED <<i, hist, queried, cmd, got, io>>
             ELSE /\ hist' = Accept(hist, s)
                  /\ i' = i + 1
                  /\ IF More(i + 1)
                     THEN /\ queried' = Append(queried, i + 1)
                          /\ cmd' = [cmd EXCEPT !["history"] = i + 1]
                          /\ got' = [got EXCEPT !["history"] = NoDatagram]
                          /\ io' = [io EXCEPT !["history"] = NoIO]
                          /\ pc' = [pc EXCEPT !["history"] = "lock"]
                          /\ UNCHANGED <<ret, herr>>
                     ELSE /\ ret' = [nil |-> FALSE, list |-> hist']
                          /\ herr' = "none"
                          /\ pc' = [pc EXCEPT !["history"] = "ret"]
                          /\ UNCHANGED <<queried, cmd, got, io>>
  /\ UNCHANGED <<mu, conn, rcv, merr, net, late, op, slots, served, smu, lastgood, mcall>>
  /\ UNCHANGED pureVars

\* history(): udp.History() returned.  A failed poll is logged and skipped, the
\* loop waits for the next tick; the result h of a successful one goes on to
\* mu.Lock().  The locals of the finished call are gone.
HistoryLoop ==
  /\ pc["history"] = "ret"
  /\ IF herr # "none"
     THEN /\ pc' = [pc EXCEPT !["history"] = "idle"]
          /\ ret' = Nil
          /\ herr' = "none"
          /\ UNCHANGED lastgood
     ELSE /\ pc' = [pc EXCEPT !["history"] = "slock"]
          /\ lastgood' = ret.list
          /\ UNCHANGED <<ret, herr>>
  /\ i' = First
  /\ hist' = <<>>
  /\ decoded' = <<>>
  /\ queried' = <<>>
  /\ cmd' = [cmd EXCEPT !["history"] = 0]
  /\ merr' = [merr EXCEPT !["history"] = "none"]
  /\ got' = [got EXCEPT !["history"] = NoDatagram]
  /\ io' = [io EXCEPT !["history"] = NoIO]
  /\ UNCHANGED <<mu, conn, rcv, net, late, op, slots, mcall, served, smu>>
  /\ UNCHANGED pureVars

\* what the publishing steps of the loop leave alone
scanVars == <<mu, conn, rcv, cmd, merr, got, net, late, io, op, slots, mcall,
              i, hist, decoded, queried>>

\* a loop that does not take the lock
PublishLockNoWait ==
  /\ pc["history"] = "slock"
  /\ smu' = [smu EXCEPT !.w = TRUE]
  /\ pc' = [pc EXCEPT !["history"] = "store1"]
  /\ UNCHANGED <<served, lastgood, ret, herr>>
  /\ UNCHANGED scanVars
  /\ UNCHANGED pureVars

\* mu.Lock(): waits until no request holds the read lock
PublishLock ==
  /\ pc["history"] = "slock"
  /\ ~smu.w
  /\ smu.r = 0
  /\ smu' = [smu EXCEPT !.w = TRUE]
  /\ pc' = [pc EXCEPT !["history"] = "store1"]
  /\ UNCHANGED <<served, lastgood, ret, herr>>
  /\ UNCHANGED scanVars
  /\ UNCHANGED pureVars

\* hist = h, one word after the other
PublishStore ==
  /\ \/ /\ pc["history"] = "store1"
        /\ served' = [served EXCEPT !.ptr = ret.list]
        /\ pc' = [pc EXCEPT !["history"] = "store2"]
     \/ /\ pc["history"] = "store2"
        /\ served' = [served EXCEPT !.len = Len(ret.list)]
        /\ pc' = [pc EXCEPT !["history"] = "sunlock"]
  /\ UNCHANGED <<smu, lastgood, ret, herr>>
  /\ UNCHANGED scanVars
  /\ UNCHANGED pureVars

\* mu.Unlock(), and the loop waits for the next tick
PublishUnlock ==
  /\ pc["history"] = "sunlock"
  /\ smu' = [smu EXCEPT !.w = FALSE]
  /\ ret' = Nil
  /\ pc' = [pc EXCEPT !["history"] = "idle"]
  /\ UNCHANGED <<served, lastgood, herr>>
  /\ UNCHANGED scanVars
  /\ UNCHANGED pureVars

(***************************************************************************)
(* The metrics loop                                                        *)
(***************************************************************************)
\* a tick: udp.Config() enters msg("report 2", &c)
MetricsConfig ==
  /\ pc["metrics"] = "idle"
  /\ mcall' = "Config"
  /\ cmd' = [cmd EXCEPT !["metrics"] = ReportConfig]
  /\ pc' = [pc EXCEPT !["metrics"] = "lock"]
  /\ UNCHANGED <<mu, conn, rcv, merr, got, net, late, io, op, slots>>
  /\ UNCHANGED histVars
  /\ UNCHANGED pureVars

\* Config returned (its values are published or its error is logged):
\* udp.Session() enters msg("report 3", &s)
MetricsSession ==
  /\ pc["metrics"] = "done"
  /\ mcall = "Config"
  /\ mcall' = "Session"
  /\ cmd' = [cmd EXCEPT !["metrics"] = ReportSession]
  /\ merr' = [merr EXCEPT !["metrics"] = "none"]
  /\ got' = [got EXCEPT !["metrics"] = NoDatagram]
  /\ io' = [io EXCEPT !["metrics"] = NoIO]
  /\ pc' = [pc EXCEPT !["metrics"] = "lock"]
  /\ UNCHANGED <<mu, conn, rcv, net, late, op, slots>>
  /\ UNCHANGED histVars
  /\ UNCHANGED pureVars

\* Session returned: its values are published or its error logged, and the
\* loop waits for the next tick (the locals of the iteration are gone)
MetricsPublish ==
  /\ pc["metrics"] = "done"
  /\ mcall = "Session"
  /\ mcall' = "none"
  /\ cmd' = [cmd EXCEPT !["metrics"] = 0]
  /\ merr' = [merr EXCEPT !["metrics"] = "none"]
  /\ got' = [got EXCEPT !["metrics"] = NoDatagram]
  /\ io' = [io EXCEPT !["metrics"] = NoIO]
  /\ pc' = [pc EXCEPT !["metrics"] = "idle"]
  /\ UNCHANGED <<mu, conn, rcv, net, late, op, slots>>
  /\ UNCHANGED histVars
  /\ UNCHANGED pureVars

Next ==
  \/ \E p \in Procs : Msg(p)
  \/ Deliver
  \/ HistoryStart
  \/ HistoryStep
  \/ HistoryLoop
  \/ PublishLock
  \/ PublishStore
  \/ PublishUnlock
  \/ MetricsConfig
  \/ MetricsSession
  \/ MetricsPublish

Spec == Init /\ [][Next]_vars

\* Every goroutine keeps running: a statement that can be executed is
\* executed, a read ends at its deadline at the latest, both tickers keep
\* firing, and the lock is fair: a caller that finds it free again and again
\* gets it (sync.Mutex hands the lock to a waiter of more than 1ms).  The
\* network owes nothing: Deliver is not fair.
Fairness ==
  /\ \A p \in Procs : SF_vars(Msg(p))
  /\ WF_vars(HistoryStart)
  /\ WF_vars(HistoryStep)
  /\ WF_vars(HistoryLoop)
  /\ WF_vars(PublishLock \/ PublishStore \/ PublishUnlock)
  /\ WF_vars(MetricsConfig)
  /\ WF_vars(MetricsSession)
  /\ WF_vars(MetricsPublish)

\* both loops share one client; the device holds no session or one
InitLive ==
  /\ InitClient
  /\ slots \in {Table(<<>>, -1), Table(<<1>>, -1)}
  /\ IdleDIPs
  /\ IdleLog
  /\ IdleF

SpecLive == InitLive /\ [][Next]_vars /\ Fairness

\* the history loop is the only caller of the client
NextHistory ==
  \/ Msg("history")
  \/ Deliver
  \/ HistoryStart
  \/ HistoryStep
  \/ HistoryLoop
  \/ PublishLock
  \/ PublishStore
  \/ PublishUnlock

SpecHistory == InitHistory /\ [][NextHistory]_vars

(***************************************************************************)
(* The polling loop of the earlier mains (main.go, and the main with the   *)
(* request counters): Config, then Session, then the gauges                *)
(***************************************************************************)
\* cfg, err := udp.Config(); if err != nil { log.Println(err); continue }:
\* the tick is over, the loop waits for the next one
MainContinue ==
  /\ pc["metrics"] = "done"
  /\ mcall = "Config"
  /\ merr["metrics"] # "none"
  /\ mcall' = "none"
  /\ cmd' = [cmd EXCEPT !["metrics"] = 0]
  /\ merr' = [merr EXCEPT !["metrics"] = "none"]
  /\ got' = [got EXCEPT !["metrics"] = NoDatagram]
  /\ io' = [io EXCEPT !["metrics"] = NoIO]
  /\ pc' = [pc EXCEPT !["metrics"] = "idle"]
  /\ UNCHANGED <<mu, conn, rcv, net, late, op, slots>>
  /\ UNCHANGED histVars
  /\ UNCHANGED pureVars

\* Config returned no error: sess, err := udp.Session()
MainSession ==
  /\ merr["metrics"] = "none"
  /\ MetricsSession

\* the loop of the earlier mains is the only caller of the client; its first
\* call and its last step are those of metrics()
NextMain ==
  \/ Msg("metrics")
  \/ Deliver
  \/ MetricsConfig
  \/ MainSession
  \/ MainContinue
  \/ MetricsPublish

SpecMain == Init /\ [][NextMain]_vars

(***************************************************************************)
(* The handler of /history, one step per statement                         *)
(***************************************************************************)
\* a request arrives
ServeRequest ==
  /\ hpc = "idle"
  /\ hpc' = "rlock"
  /\ UNCHANGED <<seen, smu>>

\* mu.RLock(): waits until the loop does not hold the lock
ServeRLock ==
  /\ hpc = "rlock"
  /\ ~smu.w
  /\ smu' = [smu EXCEPT !.r = @ + 1]
  /\ hpc' = "load1"
  /\ UNCHANGED seen

\* json.Marshal(hist): the slice is loaded one word after the other
ServeMarshal ==
  /\ \/ /\ hpc = "load1"
        /\ seen' = [seen EXCEPT !.ptr = served.ptr]
        /\ hpc' = "load2"
     \/ /\ hpc = "load2"
        /\ seen' = [seen EXCEPT !.len = served.len]
        /\ hpc' = "runlock"
  /\ UNCHANGED smu

\* w.Write(data); defer mu.RUnlock()
ServeRUnlock ==
  /\ hpc = "runlock"
  /\ smu' = [smu EXCEPT !.r = @ - 1]
  /\ hpc' = "replied"
  /\ UNCHANGED seen

\* the request is over
ServeDone ==
  /\ hpc = "replied"
  /\ seen' = Slice(<<>>)
  /\ hpc' = "idle"
  /\ UNCHANGED smu

Handler ==
  /\ \/ ServeRequest
     \/ ServeRLock
     \/ ServeMarshal
     \/ ServeRUnlock
     \/ ServeDone
  /\ UNCHANGED <<scanVars, pc, ret, herr, served, lastgood>>
  /\ UNCHANGED <<dipVars, logVars, fVars>>

\* the history loop and the requests for what it serves
NextServe ==
  \/ NextHistory
  \/ Handler

SpecServe == Init /\ [][NextServe]_vars

(***************************************************************************)
(* System, Config and Session called from outside the loops                *)
(***************************************************************************)
\* the command each call hands to msg
Report(name) ==
  CASE name = "System" -> ReportSystem
    [] name = "Config" -> ReportConfig
    [] name = "Session" -> ReportSession

\* var s X; err := u.msg("report n", &s)
Call(name) ==
  /\ pc["caller"] = "idle"
  /\ op' = name
  /\ cmd' = [cmd EXCEPT !["caller"] = Report(name)]
  /\ pc' = [pc EXCEPT !["caller"] = "lock"]
  /\ UNCHANGED <<mu, conn, rcv, merr, got, net, late, io, slots, mcall>>
  /\ UNCHANGED histVars
  /\ UNCHANGED pureVars

System == Call("System")
Config == Call("Config")
Session == Call("Session")

\* return &s, err: the record (got) and the error of msg (merr) go to the
\* caller as they are, and the call is over
Return ==
  /\ pc["caller"] = "done"
  /\ op' = "none"
  /\ cmd' = [cmd EXCEPT !["caller"] = 0]
  /\ merr' = [merr EXCEPT !["caller"] = "none"]
  /\ got' = [got EXCEPT !["caller"] = NoDatagram]
  /\ io' = [io EXCEPT !["caller"] = NoIO]
  /\ pc' = [pc EXCEPT !["caller"] = "idle"]
  /\ UNCHANGED <<mu, conn, rcv, net, late, slots, mcall>>
  /\ UNCHANGED histVars
  /\ UNCHANGED pureVars

NextCalls ==
  \/ Msg("caller")
  \/ Deliver
  \/ System
  \/ Config
  \/ Session
  \/ Return

SpecCalls == Init /\ [][NextCalls]_vars

(***************************************************************************)
(* DIPs: a 16-bit register and its JSON text.  A text is a sequence of     *)
(* characters.                                                             *)
(***************************************************************************)
\* most leading zeros in a generated spelling
MaxZeros == 1
\* most characters between the quotes of a generated text
MaxText == 4

Quote == "\""
LowerDigits == <<"0", "1", "2", "3", "4", "5", "6", "7", "8", "9",
                 "a", "b", "c", "d", "e", "f", "g", "x">>
UpperDigits == <<"0", "1", "2", "3", "4", "5", "6", "7", "8", "9",
                 "A", "B", "C", "D", "E", "F", "G", "X">>

\* strconv: the value of a digit character ('0'..'9', then letters of either
\* case from 10 on), 255 for any other character
DigitValue(c) ==
  IF \E k \in 1..16 : LowerDigits[k] = c \/ UpperDigits[k] = c
  THEN (CHOOSE k \in 1..16 : LowerDigits[k] = c \/ UpperDigits[k] = c) - 1
  ELSE IF c \in {"g", "G"} THEN 16
  ELSE IF c \in {"x", "X"} THEN 33
  ELSE 255

RECURSIVE ParseDigits(_, _)
\* strconv.ParseUint(s, 16, 64) after the empty-string test, n being the value
\* of the digits read so far: -1 for a syntax error, else the value, held at
\* 65536 once it is out of the range of 16 bits
ParseDigits(s, n) ==
  IF s = <<>> THEN n
  ELSE IF DigitValue(Head(s)) >= 16 THEN -1
  ELSE LET m == n * 16 + DigitValue(Head(s)) IN
       ParseDigits(Tail(s), IF m > 65536 THEN 65536 ELSE m)

\* strconv.ParseInt(s, 16, 16): an optional sign, then the digits; the
\* magnitude must fit a signed 16-bit integer
ParseInt(s) ==
  IF s = <<>> THEN [err |-> "syntax", val |-> 0]
  ELSE LET neg == Head(s) = "-"
           rest == IF Head(s) \in {"+", "-"} THEN Tail(s) ELSE s
           un == IF rest = <<>> THEN -1 ELSE ParseDigits(rest, 0)
       IN IF un = -1 THEN [err |-> "syntax", val |-> 0]
          ELSE IF ~neg /\ un >= 32768 THEN [err |-> "range", val |-> 32767]
          ELSE IF neg /\ un > 32768 THEN [err |-> "range", val |-> -32768]
          ELSE [err |-> "none", val |-> IF neg THEN 0 - un ELSE un]

\* strings.TrimPrefix(s, "0x")
TrimPrefix(s) ==
  IF Len(s) >= 2 /\ s[1] = "0" /\ s[2] = "x" THEN SubSeq(s, 3, Len(s)) ELSE s

\* json.Unmarshal(data, &s) for a string s: a JSON string gives its contents,
\* null leaves s empty, anything else is an error (the texts of the model hold
\* no escape sequences and no white space)
UnmarshalString(text) ==
  IF text = <<"n", "u", "l", "l">> THEN [err |-> "none", s |-> <<>>]
  ELSE IF /\ Len(text) >= 2
          /\ text[1] = Quote
          /\ text[Len(text)] = Quote
          /\ \A k \in 2..(Len(text) - 1) : text[k] # Quote
       THEN [err |-> "none", s |-> SubSeq(text, 2, Len(text) - 1)]
       ELSE [err |-> "json", s |-> <<>>]

\* DIPs(i): the conversion of an int64 to uint16
ToUint16(n) == n % 65536

\* (d *DIPs) UnmarshalJSON(data): the error and the value of *d afterwards
UnmarshalJSON(old, text) ==
  LET u == UnmarshalString(text) IN
  IF u.err # "none" THEN [err |-> u.err, d |-> old]
  ELSE LET r == ParseInt(TrimPrefix(u.s)) IN
       IF r.err # "none" THEN [err |-> r.err, d |-> old]
       ELSE [err |-> "none", d |-> ToUint16(r.val)]

\* (d *DIPs) String(): fmt.Sprintf("%016b", *d)
String(v) ==
  [k \in 1..16 |-> IF (v \div (2 ^ (16 - k))) % 2 = 1 THEN "1" ELSE "0"]

\* (d *DIPs) MarshalJSON(): []byte(d.String())
MarshalJSON(v) == String(v)

RECURSIVE Hex(_, _)
\* the hexadecimal digits of v without leading zeros, in the given digits
Hex(v, digits) ==
  IF v < 16 THEN <<digits[v + 1]>>
  ELSE Append(Hex(v \div 16, digits), digits[(v % 16) + 1])

\* the JSON string "0x<zeros><hex of v>"
Spelling(v, zeros, digits) ==
  <<Quote, "0", "x">> \o [k \in 1..zeros |-> "0"] \o Hex(v, digits) \o <<Quote>>

TextAlphabet == {"0", "1", "f", "x", "-", "g"}
Texts == UNION {[1..n -> TextAlphabet] : n \in 0..MaxText}
\* the texts UnmarshalJSON is tried on: bare and quoted texts, and null
Inputs == Texts \cup {<<Quote>> \o t \o <<Quote>> : t \in Texts} \cup {<<"n", "u", "l", "l">>}

Uint16 == 0..65535

IdleClient ==
  /\ InitClient
  /\ slots = Table(<<>>, -1)

\* a value to encode and decode again, a spelling of a value to decode, or any
\* text to decode into a register that holds 0 or 255
InitDIPs ==
  /\ IdleClient
  /\ IdleLog
  /\ IdleF
  /\ derr = "none"
  /\ \/ /\ dkind = "marshal"
        /\ dpc = "value"
        /\ d \in Uint16
        /\ data = <<>>
        /\ dsrc = d
        /\ dold = d
     \/ /\ dkind = "spelling"
        /\ dpc = "text"
        /\ d = 0
        /\ dold = 0
        /\ dsrc \in Uint16
        /\ \E z \in 0..MaxZeros : \E digits \in {LowerDigits, UpperDigits} :
             data = Spelling(dsrc, z, digits)
     \/ /\ dkind = "text"
        /\ dpc = "text"
        /\ d \in {0, 255}
        /\ dold = d
        /\ dsrc = 0
        /\ data \in Inputs

\* json.Marshal reaches d.MarshalJSON()
Marshal ==
  /\ dpc = "value"
  /\ data' = MarshalJSON(d)
  /\ dpc' = "text"
  /\ UNCHANGED <<d, derr, dkind, dsrc, dold>>
  /\ UNCHANGED <<clientVars, logVars, fVars>>

\* json.Unmarshal reaches d.UnmarshalJSON(data)
Unmarshal ==
  /\ dpc = "text"
  /\ LET r == UnmarshalJSON(d, data) IN
       /\ d' = r.d
       /\ derr' = r.err
  /\ dold' = d
  /\ dpc' = "decoded"
  /\ UNCHANGED <<data, dkind, dsrc>>
  /\ UNCHANGED <<clientVars, logVars, fVars>>

NextDIPs ==
  \/ Marshal
  \/ Unmarshal

SpecDIPs == InitDIPs /\ [][NextDIPs]_vars

(***************************************************************************)
(* udpLog.UnmarshalJSON: the record of a history slot and its two          *)
(* timestamps.  A member of the reply is absent or a JSON value: null,     *)
(* true, a number or a string, the last two with their text.               *)
(***************************************************************************)
DecDigits == <<"0", "1", "2", "3", "4", "5", "6", "7", "8", "9">>
IsDigit(c) == \E k \in DOMAIN DecDigits : DecDigits[k] = c
DecValue(c) == (CHOOSE k \in DOMAIN DecDigits : DecDigits[k] = c) - 1

\* the text without its leading digits
RECURSIVE SkipDigits(_)
SkipDigits(s) ==
  IF s # <<>> /\ IsDigit(Head(s)) THEN SkipDigits(Tail(s)) ELSE s

\* encoding/json isValidNumber: -? (0 | [1-9][0-9]*) (. [0-9]+)? ([eE] [+-]? [0-9]+)?
IsValidNumber(s) ==
  LET unsigned == IF s # <<>> /\ Head(s) = "-" THEN Tail(s) ELSE s
      afterInt == IF unsigned = <<>> \/ ~IsDigit(Head(unsigned)) THEN <<"?">>
                  ELSE IF Head(unsigned) = "0" THEN Tail(unsigned)
                  ELSE SkipDigits(unsigned)
      afterFrac == IF Len(afterInt) >= 2 /\ afterInt[1] = "." /\ IsDigit(afterInt[2])
                   THEN SkipDigits(Tail(afterInt)) ELSE afterInt
      exponent == IF Len(afterFrac) >= 2 /\ afterFrac[1] \in {"e", "E"}
                  THEN (IF afterFrac[2] \in {"+", "-"}
                        THEN Tail(Tail(afterFrac)) ELSE Tail(afterFrac))
                  ELSE <<>>
      afterExp == IF Len(afterFrac) >= 2 /\ afterFrac[1] \in {"e", "E"}
                  THEN (IF exponent = <<>> \/ ~IsDigit(Head(exponent)) THEN <<"?">>
                        ELSE SkipDigits(exponent))
                  ELSE afterFrac
  IN afterExp = <<>>

\* the value of a text of decimal digits, n the value of the digits read so far
RECURSIVE ParseDecimal(_, _)
ParseDecimal(s, n) ==
  IF s = <<>> THEN n ELSE ParseDecimal(Tail(s), 10 * n + DecValue(Head(s)))

\* json.Number.Int64: strconv.ParseInt(string(n), 10, 64), a sign and digits
Int64(s) ==
  LET signed == s # <<>> /\ Head(s) \in {"+", "-"}
      digits == IF signed THEN Tail(s) ELSE s
  IN IF digits = <<>> \/ SkipDigits(digits) # <<>>
     THEN [err |-> "syntax", i |-> 0]
     ELSE [err |-> "none",
           i |-> IF signed /\ Head(s) = "-" THEN 0 - ParseDecimal(digits, 0)
                 ELSE ParseDecimal(digits, 0)]

\* json.Unmarshal of one member into a json.Number: a number is stored as its
\* text, a string as well when it is a valid number and is an error that ends
\* the decoding when it is not, null and a missing member store nothing, and
\* any other value is an UnmarshalTypeError
DecodeNumber(v) ==
  CASE v.kind \in {"absent", "null"} -> [err |-> "none", n |-> <<>>]
    [] v.kind = "number" -> [err |-> "none", n |-> v.text]
    [] v.kind = "string" -> IF IsValidNumber(v.text)
                            THEN [err |-> "none", n |-> v.text]
                            ELSE [err |-> "invalid number literal", n |-> <<>>]
    [] OTHER -> [err |-> "UnmarshalTypeError", n |-> <<>>]

\* udpLog.UnmarshalJSON(data) on the record old
LogUnmarshalJSON(old, reply) ==
  LET plain == [old EXCEPT !.Session = reply.session]
      start == DecodeNumber(reply.started)
      end == DecodeNumber(reply.ended)
      s64 == Int64(start.n)
      e64 == Int64(end.n)
  IN IF start.err # "none" THEN [l |-> plain, err |-> start.err]
     ELSE IF end.err # "none" THEN [l |-> plain, err |-> end.err]
     ELSE [l |-> [plain EXCEPT !.Start = IF s64.err = "none" THEN s64.i ELSE @,
                               !.End = IF e64.err = "none" THEN e64.i ELSE @],
           err |-> "none"]

\* texts of JSON numbers, and texts of JSON strings
NumberTexts == {<<"0">>, <<"7">>, <<"1", "2">>, <<"-", "7">>, <<"1", ".", "5">>, <<"2", "e", "1">>}
StringTexts == NumberTexts \cup {<<>>, <<"n">>, <<"7", "s">>, <<"0", "7">>, <<"+", "7">>}
Timestamps ==
  {Absent, [kind |-> "null", text |-> <<>>], [kind |-> "true", text |-> <<>>]}
    \cup {[kind |-> "number", text |-> t] : t \in NumberTexts}
    \cup {[kind |-> "string", text |-> t] : t \in StringTexts}

\* a reply to "report 1xx" and a fresh record
InitLog ==
  /\ IdleClient
  /\ IdleDIPs
  /\ IdleF
  /\ lin \in [session : Sessions, started : Timestamps, ended : Timestamps]
  /\ l = ZeroLog
  /\ lerr = "none"
  /\ lpc = "reply"

\* the decoder reaches l.UnmarshalJSON(data)
UnmarshalLog ==
  /\ lpc = "reply"
  /\ LET r == LogUnmarshalJSON(l, lin) IN
       /\ l' = r.l
       /\ lerr' = r.err
  /\ lpc' = "decoded"
  /\ UNCHANGED lin
  /\ UNCHANGED <<clientVars, dipVars, fVars>>

NextLog == UnmarshalLog

SpecLog == InitLog /\ [][NextLog]_vars

\* the value a timestamp member stands for: that of its digits
IsInteger(v) ==
  v.kind \in {"number", "string"} /\ IsValidNumber(v.text) /\ Int64(v.text).err = "none"
\* a member that is no number at all
NonNumeric(v) ==
  v.kind \notin {"number", "string"} \/ ~IsValidNumber(v.text)

\* C12: decoding a history slot reply takes started[s] and ended[s] from a
\* JSON number or a numeric string, and a timestamp that is absent or not
\* numeric is left at 0 while the decode succeeds with the other members
\* decoded: a timestamp member never makes the decode fail.
C12_TimestampsTolerated ==
  lpc = "decoded" =>
    /\ lerr = "none"
    /\ l.Session = lin.session
    /\ (IsInteger(lin.started) => l.Start = Int64(lin.started.text).i)
    /\ (IsInteger(lin.ended) => l.End = Int64(lin.ended.text).i)
    /\ (NonNumeric(lin.started) => l.Start = 0)
    /\ (NonNumeric(lin.ended) => l.End = 0)

\* the part of C12 that holds: the decode fails exactly when a timestamp
\* member is a string that is no number or a value of another type
C12_FailsOnNonNumeric ==
  lpc = "decoded" =>
    /\ (lerr = "none") <=>
         \A v \in {lin.started, lin.ended} :
           v.kind \in {"absent", "null", "number"} \/ (v.kind = "string" /\ IsValidNumber(v.text))
    /\ l.Session = lin.session
    /\ (lerr = "none" =>
          /\ (IsInteger(lin.started) => l.Start = Int64(lin.started.text).i)
          /\ (IsInteger(lin.ended) => l.End = Int64(lin.ended.text).i)
          /\ (~IsInteger(lin.started) => l.Start = 0)
          /\ (~IsInteger(lin.ended) => l.End = 0))

(***************************************************************************)
(* F, the float behind a counter, one step per statement.  The float is    *)
(* stored and loaded one word at a time.                                   *)
(***************************************************************************)
\* a call of f.Set(v) begins
SetCall(p) ==
  /\ fpc[p] = "idle"
  /\ \E v \in 0..MaxValue : farg' = [farg EXCEPT ![p] = v]
  /\ fpc' = [fpc EXCEPT ![p] = "lock"]
  /\ UNCHANGED <<fval, fmu, fget, written>>

\* a Set that does not take the lock
SetLockNoWait(p) ==
  /\ fpc[p] = "lock"
  /\ fmu' = [fmu EXCEPT !.w = TRUE]
  /\ fpc' = [fpc EXCEPT ![p] = "store1"]
  /\ UNCHANGED <<fval, farg, fget, written>>

\* f.mu.Lock(): waits until no writer and no reader holds the lock
SetLock(p) ==
  /\ fpc[p] = "lock"
  /\ ~fmu.w
  /\ fmu.r = 0
  /\ fmu' = [fmu EXCEPT !.w = TRUE]
  /\ fpc' = [fpc EXCEPT ![p] = "store1"]
  /\ UNCHANGED <<fval, farg, fget, written>>

\* f.val = v
SetStore(p) ==
  /\ \/ /\ fpc[p] = "store1"
        /\ fval' = [fval EXCEPT ![1] = farg[p]]
        /\ fpc' = [fpc EXCEPT ![p] = "store2"]
        /\ UNCHANGED written
     \/ /\ fpc[p] = "store2"
        /\ fval' = [fval EXCEPT ![2] = farg[p]]
        /\ written' = written \cup {farg[p]}
        /\ fpc' = [fpc EXCEPT ![p] = "unlock"]
  /\ UNCHANGED <<fmu, farg, fget>>

\* defer f.mu.Unlock(), and Set returns
SetUnlock(p) ==
  /\ fpc[p] = "unlock"
  /\ fmu' = [fmu EXCEPT !.w = FALSE]
  /\ farg' = [farg EXCEPT ![p] = 0]
  /\ fpc' = [fpc EXCEPT ![p] = "idle"]
  /\ UNCHANGED <<fval, fget, written>>

\* a call of f.Get() begins
GetCall(p) ==
  /\ fpc[p] = "idle"
  /\ fpc' = [fpc EXCEPT ![p] = "rlock"]
  /\ UNCHANGED <<fval, fmu, farg, fget, written>>

\* f.mu.RLock(): waits until no writer holds the lock
GetRLock(p) ==
  /\ fpc[p] = "rlock"
  /\ ~fmu.w
  /\ fmu' = [fmu EXCEPT !.r = @ + 1]
  /\ fpc' = [fpc EXCEPT ![p] = "load1"]
  /\ UNCHANGED <<fval, farg, fget, written>>

\* the operand of return f.val is loaded
GetLoad(p) ==
  /\ \/ /\ fpc[p] = "load1"
        /\ fget' = [fget EXCEPT ![p][1] = fval[1]]
        /\ fpc' = [fpc EXCEPT ![p] = "load2"]
     \/ /\ fpc[p] = "load2"
        /\ fget' = [fget EXCEPT ![p][2] = fval[2]]
        /\ fpc' = [fpc EXCEPT ![p] = "runlock"]
  /\ UNCHANGED <<fval, fmu, farg, written>>

\* defer f.mu.RUnlock(), and Get returns what it loaded
GetRUnlock(p) ==
  /\ fpc[p] = "runlock"
  /\ fmu' = [fmu EXCEPT !.r = @ - 1]
  /\ fpc' = [fpc EXCEPT ![p] = "ret"]
  /\ UNCHANGED <<fval, farg, fget, written>>

\* the caller has the value
GetDone(p) ==
  /\ fpc[p] = "ret"
  /\ fget' = [fget EXCEPT ![p] = Float(0)]
  /\ fpc' = [fpc EXCEPT ![p] = "idle"]
  /\ UNCHANGED <<fval, fmu, farg, written>>

Set(p) ==
  /\ \/ SetCall(p)
     \/ SetLock(p)
     \/ SetStore(p)
     \/ SetUnlock(p)
  /\ UNCHANGED <<clientVars, dipVars, logVars>>

Get(p) ==
  /\ \/ GetCall(p)
     \/ GetRLock(p)
     \/ GetLoad(p)
     \/ GetRUnlock(p)
     \/ GetDone(p)
  /\ UNCHANGED <<clientVars, dipVars, logVars>>

InitF ==
  /\ IdleClient
  /\ IdleDIPs
  /\ IdleLog
  /\ IdleF

NextF ==
  \/ \E p \in Setters : Set(p)
  \/ \E p \in Getters : Get(p)

SpecF == InitF /\ [][NextF]_vars

\* C13: under any interleaving of Set and Get calls on F, every Get returns a
\* value that some Set has stored, a Get before or during the first Set
\* included.
C13_GetReturnsWritten ==
  \A p \in Getters :
    fpc[p] = "ret" => fget[p] \in {Float(v) : v \in written}

\* C13 (amended): every Get returns the zero value F starts with or a value
\* that some Set has stored, and never two words of different values.
C13_GetReturnsWrittenOrZero ==
  \A p \in Getters :
    fpc[p] = "ret" => fget[p] \in {Float(v) : v \in written \cup {0}}

C13_Witness ==
  /\ fpc["get1"] = "ret"
  /\ fget["get1"] = Float(0)
  /\ written = {}
  /\ fpc["set1"] = "lock"
  /\ farg["set1"] = 1
  /\ fpc["get2"] = "ret"

(***************************************************************************)
(* Properties of the history scan                                          *)
(***************************************************************************)
RECURSIVE Collapse(_)
\* seq without the entries that repeat their predecessor
Collapse(seq) ==
  IF Len(seq) <= 1 THEN seq
  ELSE LET front == SubSeq(seq, 1, Len(seq) - 1) IN
       IF seq[Len(seq)] = seq[Len(seq) - 1]
       THEN Collapse(front)
       ELSE Append(Collapse(front), seq[Len(seq)])

\* the non-empty slots among the decoded session numbers seq, repeats collapsed
Kept(seq) == Collapse(SelectSeq(seq, LAMBDA s : s # 0))

\* the slot indices First, First+1, ..., First+n-1
Indices(n) == [k \in 1..n |-> First + k - 1]

H == "history"
Returned == pc[H] = "ret"
\* the positions of a History call that has not returned
Scanning == pc[H] \in {"lock", "dial", "write", "read", "close", "unlock", "done"}
NoNegative(seq) == \A k \in 1..Len(seq) : seq[k] >= 0

\* C1: when the reply decoded for slot i has a negative session number the scan
\* stops at i: the call has returned without error, the slots queried are
\* exactly First..i, and the list returned is what was kept of the replies of
\* First..i-1, the negative entry excluded (5, 5, 6, 0, 7, -1, 8 gives 5, 6, 7
\* with slot 106 never queried).
C1_NegativeStops ==
  (Len(decoded) > 0 /\ decoded[Len(decoded)] < 0) =>
     /\ Returned
     /\ herr = "none"
     /\ ~ret.nil
     /\ i = First + Len(decoded) - 1
     /\ queried = Indices(Len(decoded))
     /\ NoNegative(SubSeq(decoded, 1, Len(decoded) - 1))
     /\ ret.list = Kept(SubSeq(decoded, 1, Len(decoded) - 1))
     /\ \A k \in 1..Len(ret.list) : ret.list[k] > 0
     /\ (decoded = <<5, 5, 6, 0, 7, -1>> =>
           ret.list = <<5, 6, 7>> /\ queried = <<100, 101, 102, 103, 104, 105>>)

C1_Witness ==
  /\ Returned
  /\ decoded = <<5, 5, 6, 0, 7, -1>>
  /\ ret.list = <<5, 6, 7>>

\* C2: when the exchange for slot i fails, History returns that exchange's
\* error and nil instead of the entries accepted so far, and no exchange is
\* issued for a slot after i.
C2_FailureAborts ==
  /\ (merr[H] # "none" => pc[H] \in {"unlock", "close", "done", "ret"})
  /\ (Returned /\ merr[H] # "none" =>
        /\ herr = merr[H]
        /\ ret = Nil
        /\ cmd[H] = i
        /\ queried = Indices(i - First + 1)
        /\ Len(decoded) = i - First)

C2_Witness ==
  /\ Returned
  /\ herr = "timeout"
  /\ i > First
  /\ Len(hist) > 0
  /\ ret = Nil

\* C5: when no decoded reply is negative and every exchange succeeds, History
\* performs exactly 31 exchanges, for the slots 100..130 in order, and returns
\* the non-zero entries without consecutive repeats, in slot order.
C5_FullScan ==
  (Returned /\ herr = "none" /\ NoNegative(decoded)) =>
     /\ Len(decoded) = 31
     /\ queried = Indices(31)
     /\ queried[31] = Last
     /\ ~ret.nil
     /\ ret.list = Kept(decoded)

C5_Witness ==
  /\ Returned
  /\ herr = "none"
  /\ NoNegative(decoded)
  /\ Len(ret.list) >= 2
  /\ \E k \in 1..Len(decoded) : decoded[k] = 0
  /\ \E k \in 1..(Len(decoded) - 1) : decoded[k] > 0 /\ decoded[k] = decoded[k + 1]

NoAdjacentRepeat(h) == \A k \in 1..(Len(h) - 1) : h[k] # h[k + 1]

\* C6: an entry whose session number equals that of the last accepted entry is
\* skipped, also across empty slots, so neither the list under construction
\* nor the returned list ever holds two adjacent entries with the same session
\* number.
C6_NoAdjacentDuplicates ==
  /\ NoAdjacentRepeat(hist)
  /\ NoAdjacentRepeat(ret.list)
  /\ \A k \in 1..Len(hist) : hist[k] # 0

C6_Witness ==
  /\ Returned
  /\ herr = "none"
  /\ \E k \in 1..(Len(decoded) - 2) :
        /\ decoded[k] > 0
        /\ decoded[k + 1] = 0
        /\ decoded[k + 2] = decoded[k]
  /\ Len(ret.list) >= 1

\* C15: a reply with session number zero is skipped without ending the scan:
\* the slot after it is queried next unless it was slot 130, in which case the
\* call returns without error; and no entry of the list under construction or
\* of a returned list is zero or negative.
C15_ZeroSkipped ==
  /\ \A k \in 1..Len(decoded) :
       decoded[k] = 0 =>
         IF k < Last - First + 1
         THEN Len(queried) > k /\ queried[k + 1] = First + k
         ELSE Returned /\ herr = "none" /\ ret.list = hist
  /\ \A k \in 1..Len(hist) : hist[k] > 0
  /\ \A k \in 1..Len(ret.list) : ret.list[k] > 0

C15_Witness ==
  /\ Returned
  /\ herr = "none"
  /\ Len(decoded) = Last - First + 1
  /\ decoded[1] = 0
  /\ decoded[2] > 0
  /\ decoded[Len(decoded)] = 0
  /\ ret.list = <<decoded[2]>>

RECURSIVE IsSubsequence(_, _)
\* a is b with some entries left out
IsSubsequence(a, b) ==
  IF a = <<>> THEN TRUE
  ELSE IF b = <<>> THEN FALSE
  ELSE IF Head(a) = Head(b) THEN IsSubsequence(Tail(a), Tail(b))
  ELSE IsSubsequence(a, Tail(b))

\* h has the entries a, b, a next to each other
HasTriple(h, a, b) ==
  \E m \in 1..(Len(h) - 2) : h[m] = a /\ h[m + 1] = b /\ h[m + 2] = a

\* C16: the list History builds and returns keeps the order of the device: it
\* is a subsequence of the decoded replies in slot order, and a session number
\* that comes back after another one (a, b, a in consecutive slots) is in the
\* list each time.
C16_DeviceOrder ==
  /\ IsSubsequence(hist, decoded)
  /\ (Returned /\ herr = "none" => ret.list = hist)
  /\ \A k \in 1..(Len(decoded) - 2) :
       (decoded[k] > 0 /\ decoded[k + 1] > 0 /\ decoded[k + 1] # decoded[k]
          /\ decoded[k + 2] = decoded[k])
         => HasTriple(hist, decoded[k], decoded[k + 1])

C16_Witness ==
  /\ Returned
  /\ herr = "none"
  /\ Len(decoded) >= 3
  /\ <<decoded[1], decoded[2], decoded[3]>> = <<1, 2, 1>>
  /\ ret.list = <<1, 2, 1>>

\* C17: within one History call the slots are queried as 100, 101, ... in
\* steps of one: the command of the running exchange is the last slot queried,
\* no slot is queried twice or left out, none outside 100..130, and a call
\* makes between 1 and 31 exchanges.
C17_SlotsInOrder ==
  /\ queried = Indices(Len(queried))
  /\ Len(queried) <= Last - First + 1
  /\ \A k \in 1..Len(queried) : queried[k] \in Slots
  /\ (Scanning \/ Returned =>
        /\ Len(queried) >= 1
        /\ cmd[H] = queried[Len(queried)]
        /\ Len(decoded) \in {Len(queried) - 1, Len(queried)})
  /\ (Returned /\ herr = "none" => Len(decoded) = Len(queried))

C17_Witness ==
  /\ Returned
  /\ herr = "none"
  /\ Len(queried) = Last - First + 1
  /\ queried[Len(queried)] = Last
  /\ ret.list = <<>>

(***************************************************************************)
(* Properties of the exchange                                              *)
(***************************************************************************)
\* the positions of msg between the socket's opening and its closing
Exchanging(p) == conn[p] \/ pc[p] \in {"write", "read", "close"}
\* the positions of msg in which the caller holds the lock
Holding(p) == pc[p] \in {"dial", "write", "read", "close", "unlock"}

\* C3: at most one exchange is in flight on the shared client: while one
\* caller is between socket open and socket close, no other caller holds the
\* lock, opens its socket or writes its command.
C3_OneExchangeInFlight ==
  \A p \in Procs : \A q \in Procs \ {p} :
    /\ ~(Holding(p) /\ Holding(q))
    /\ (Exchanging(p) => ~conn[q] /\ pc[q] \notin {"dial", "write", "read", "close"})

C3_Witness ==
  /\ conn["history"]
  /\ pc["history"] = "read"
  /\ pc["metrics"] = "lock"
  /\ mcall = "Session"

\* C4: the datagram an exchange decodes is the reply to the command that this
\* exchange sent.
C4_NoMisattribution ==
  \A p \in Procs :
    (pc[p] \in {"close", "unlock", "done"} /\ merr[p] = "none") => got[p].re = cmd[p]

\* C10: msg releases what it acquired on every exit path: outside msg the
\* caller has no open socket and does not hold the lock, whatever the error
\* the call ended with, and the lock is free when no exchange is in progress.
C10_ReleasesOnEveryPath ==
  /\ \A p \in Procs :
       /\ (pc[p] \notin {"write", "read", "close"} => ~conn[p] /\ rcv[p] = <<>>)
       /\ (~Holding(p) => mu # p)
       /\ (Holding(p) => mu = p)
  /\ ((\A p \in Procs : ~Holding(p)) => mu = "")

C10_Witness ==
  /\ pc["history"] = "done"
  /\ merr["history"] = "write"
  /\ pc["metrics"] = "done"
  /\ merr["metrics"] = "timeout"
  /\ late = 1

\* the replies a device sends
Replies == {DeviceReply(c, Port) : c \in {ReportSystem, ReportConfig, ReportSession} \cup Slots}

\* C11: an exchange never partially succeeds: a call of msg (and of System,
\* Config, Session) ends with a complete reply in the record and no error, or
\* with an error and a record that holds nothing of a reply.
C11_NoPartialSuccess ==
  \A p \in Callers :
    pc[p] = "done" =>
      IF merr[p] = "none" THEN got[p] \in Replies ELSE got[p] = NoDatagram

\* C14: a call of System, Config or Session is one exchange and is never
\* retried: msg is entered with the call's fixed command, writes at most one
\* datagram and reads at most one, and it ends with the error of the failed
\* statement: no datagram written when the socket or the write failed, one
\* written and none read on a timeout, one written and one read otherwise.
C14_OneExchangePerCall ==
  /\ (pc["caller"] # "idle" => op # "none" /\ cmd["caller"] = Report(op))
  /\ \A p \in Callers :
       /\ io[p].sent <= 1
       /\ io[p].read <= io[p].sent
       /\ (pc[p] = "done" =>
             /\ (merr[p] \in {"dial", "write"} => io[p] = NoIO)
             /\ (merr[p] = "timeout" => io[p] = [sent |-> 1, read |-> 0])
             /\ (merr[p] \in {"none", "decode"} => io[p] = [sent |-> 1, read |-> 1]))

C14_Witness ==
  /\ pc["caller"] = "done"
  /\ op = "System"
  /\ merr["caller"] = "timeout"
  /\ io["caller"] = [sent |-> 1, read |-> 0]
  /\ late = 1

\* C19: the client lock is held for one exchange, not for a History call:
\* whoever holds it is inside msg and has written at most one datagram since
\* taking it, and a History call that is between two slot exchanges (msg has
\* returned, or the next msg waits for the lock) does not hold it, so that an
\* exchange of the metrics loop runs in between.
C19_LockPerExchange ==
  /\ \A p \in Procs : (mu = p => Holding(p) /\ io[p].sent <= 1)
  /\ (pc[H] \in {"lock", "done", "ret"} => mu # H)
  /\ ((pc[H] \in {"lock", "done"} /\ mu = "") =>
        (pc["metrics"] = "lock" => ENABLED Lock("metrics")))

C19_Witness ==
  /\ pc[H] = "lock"
  /\ Len(queried) = 2
  /\ Len(decoded) = 1
  /\ mu = "metrics"
  /\ pc["metrics"] = "read"
  /\ mcall = "Session"
  /\ rcv["metrics"] # <<>>

\* C20: every exchange terminates: a caller inside msg leaves it with the lock
\* released, a read without reply ends with a timeout, a History call returns
\* (after at most 31 exchanges), and with a fair lock a caller that waits for
\* the lock gets to its exchange; the two loops never block each other for
\* good.
C20_EveryExchangeTerminates ==
  /\ \A p \in Procs : Holding(p) ~> (pc[p] = "done" /\ mu # p)
  /\ \A p \in Procs : (pc[p] = "lock") ~> (pc[p] = "write" \/ merr[p] = "dial")
  /\ Scanning ~> Returned
  /\ [](Len(queried) <= Last - First + 1)
  /\ [](\A p \in Procs :
          (pc[p] = "close" /\ io[p] = [sent |-> 1, read |-> 0]) => merr[p] = "timeout")

C20_Witness ==
  /\ pc[H] = "unlock"
  /\ merr[H] = "timeout"
  /\ net = <<>>
  /\ late = 0
  /\ pc["metrics"] = "lock"
  /\ mcall = "Config"

(***************************************************************************)
(* Properties of the metrics loop                                          *)
(***************************************************************************)
\* the loop goes on from where it stands
LoopMoves == pc'["metrics"] # pc["metrics"]
\* a call of the loop has returned
ConfigReturned == pc["metrics"] = "done" /\ mcall = "Config"
SessionReturned == pc["metrics"] = "done" /\ mcall = "Session"

\* C21: the metrics loop tolerates the failure of one of its calls: when
\* Config has returned, with or without error, the loop goes on to the Session
\* exchange of the same tick; when Session has returned the tick ends and the
\* loop waits for the next one, whatever the errors of the tick.
C21_PartialFailureTolerated ==
  [][/\ (ConfigReturned /\ LoopMoves =>
           /\ mcall' = "Session"
           /\ cmd'["metrics"] = ReportSession
           /\ pc'["metrics"] = "lock")
     /\ (SessionReturned /\ LoopMoves =>
           /\ mcall' = "none"
           /\ pc'["metrics"] = "idle")]_vars

(***************************************************************************)
(* Properties of the served history                                        *)
(***************************************************************************)
\* the positions of the loop between mu.Lock() and mu.Unlock()
Publishing == pc[H] \in {"store1", "store2", "sunlock"}

\* C18: the list served at /history is replaced as a whole, under the write
\* lock, and only by the complete result of a History call that returned no
\* error: outside the replacement it is the result of the last successful
\* call (empty before the first), so a failed call leaves it as it was and it
\* is never a mix of two polls; and a request never sees a list in the making:
\* what it has loaded is the served list, elements and length of one result.
C18_ServedWholesale ==
  /\ (pc[H] \in {"slock", "store1", "store2", "sunlock"} =>
        herr = "none" /\ ~ret.nil /\ lastgood = ret.list)
  /\ (Publishing <=> smu.w)
  /\ (smu.w => smu.r = 0)
  /\ (pc[H] \notin {"slock", "store1", "store2"} => served = Slice(lastgood))
  /\ (pc[H] = "slock" => served.len = Len(served.ptr))
  /\ (hpc \in {"load1", "load2", "runlock"} => smu.r = 1 /\ served.len = Len(served.ptr))
  /\ (hpc = "load2" => seen.ptr = served.ptr)
  /\ (hpc = "runlock" => seen = served)
  /\ (hpc = "replied" => seen.len = Len(seen.ptr))

C18_Witness ==
  /\ pc[H] = "slock"
  /\ lastgood = <<1>>
  /\ served = Slice(<<>>)
  /\ hpc = "load2"
  /\ seen.ptr = <<>>

(***************************************************************************)
(* Properties of the DIPs text                                             *)
(***************************************************************************)
Decoded(kind) == dkind = kind /\ dpc = "decoded"

\* C7: for every 16-bit value x, decoding the text that encoding x produced
\* succeeds and yields x.
C7_RoundTrip ==
  Decoded("marshal") => derr = "none" /\ d = dsrc

\* C8: every spelling "0x<hex>" of a 16-bit value v, in upper or lower case and
\* with leading zeros, decodes without error to v.
C8_SpellingsDecode ==
  Decoded("spelling") => derr = "none" /\ d = dsrc

\* a JSON string 0x<hex> with at least one hexadecimal digit
IsHexForm(text) ==
  /\ Len(text) >= 5
  /\ text[1] = Quote
  /\ text[2] = "0"
  /\ text[3] = "x"
  /\ text[Len(text)] = Quote
  /\ \A k \in 4..(Len(text) - 1) : DigitValue(text[k]) < 16

\* C9: a text that is not a JSON string of the form 0x<hex> is a decode error
\* and leaves the register as it was.
C9_OtherFormsRejected ==
  (Decoded("text") /\ ~IsHexForm(data)) => derr # "none" /\ d = dold

====
